---- MODULE Spec2Model ----
(***************************************************************************)
(* A model of dragonfly's ASCII bit-packing codec                          *)
(* (src/core/detail/bitpacking.cc) and of StringMap                        *)
(* (src/core/string_map.cc).                                               *)
(*                                                                         *)
(* Bytes are the integers 0..255.  A uint64_t is a function from the bit   *)
(* positions 0..63 to {0,1} and an __m128i one from 0..127 to {0,1}, bit 0 *)
(* being the least significant one, so that shifts and masks keep their    *)
(* width.  Memory is a sequence of bytes; the address a is element a+1.    *)
(***************************************************************************)
EXTENDS Integers, Sequences, FiniteSets, TLC

\* ------------------------------------------------------------------- state

VARIABLES
  data,     \* the input string of the codec run
  fill,     \* the byte the unpack destination is filled with beforehand
  pc,       \* where the codec run stands
  buf,      \* the buffer ascii_pack wrote
  simd,     \* what ascii_pack_simd did
  ascii2,   \* the buffer ascii_unpack wrote, apart from buf
  cmp,      \* the candidate compare_packed was given and its answer
  vres,     \* the buffer validate_ascii_fast was given and its answer
  st,       \* ascii_unpack in place: its memory, pointers and locals
  heap,     \* the sds buffers allocated so far
  entries,  \* the objects in the StringMap's DenseSet
  mpc,      \* running, aborted or destroyed
  fatal,    \* the message of the check that aborted the process
  ret       \* the last StringMap call and what it returned

\* ------------------------------------------------------------------ bounds

\* The longest input string.  ascii_pack_simd runs its vector loop from 32 on.
MaxLen == 33
\* Bytes of a destination buffer past the longest result.
Slack == 2

\* ------------------------------------------------------------- bit helpers

Pow2(n) == 2 ^ n

\* Bit b of the byte (or small integer) x.
BitOf(x, b) == (x \div Pow2(b)) % 2

\* The conversion of an int to uint8_t / char storage.
Byte(x) == x % 256

RECURSIVE BitOr(_, _)
\* a | b on non-negative integers.
BitOr(a, b) ==
  IF a = 0 THEN b
  ELSE IF b = 0 THEN a
  ELSE (IF a % 2 = 1 \/ b % 2 = 1 THEN 1 ELSE 0) + 2 * BitOr(a \div 2, b \div 2)

RECURSIVE BitAnd(_, _)
\* a & b on non-negative integers.
BitAnd(a, b) ==
  IF a = 0 \/ b = 0 THEN 0
  ELSE (IF a % 2 = 1 /\ b % 2 = 1 THEN 1 ELSE 0) + 2 * BitAnd(a \div 2, b \div 2)

\* The value of a char holding the byte c when it is promoted to int.
CharToInt(c, isSigned) == IF isSigned /\ c >= 128 THEN c - 256 ELSE c

Load(m, a) == m[a + 1]
Store(m, a, v) == [m EXCEPT ![a + 1] = v]

RECURSIVE Buffer(_, _)
\* A memory of n bytes, each f.
Buffer(n, f) == IF n <= 0 THEN <<>> ELSE Append(Buffer(n - 1, f), f)

RECURSIVE StoreBytes(_, _, _, _)
\* The bytes from[j..] written at offset off of the bytes d.
StoreBytes(d, off, from, j) ==
  IF j > Len(from) THEN d
  ELSE StoreBytes(Store(d, off + j - 1, from[j]), off, from, j + 1)

\* ------------------------------------------------------------------ uint64

\* A small constant (below 2^30) as a 64-bit word.
Const64(n) == [k \in 0..63 |-> IF k < 30 THEN BitOf(n, k) ELSE 0]
Shr64(w, s) == [k \in 0..63 |-> IF k + s <= 63 THEN w[k + s] ELSE 0]
Shl64(w, s) == [k \in 0..63 |-> IF k >= s THEN w[k - s] ELSE 0]
And64(v, w) == [k \in 0..63 |-> v[k] * w[k]]
Or64(v, w) == [k \in 0..63 |-> IF v[k] = 1 \/ w[k] = 1 THEN 1 ELSE 0]

\* absl::little_endian::Load64(m + a)
Load64(m, a) == [k \in 0..63 |-> BitOf(Load(m, a + (k \div 8)), k % 8)]

\* Byte j of a word (or of a vector) in little-endian order.
ByteOfBits(w, j) ==
  w[8*j] + 2*w[8*j+1] + 4*w[8*j+2] + 8*w[8*j+3]
  + 16*w[8*j+4] + 32*w[8*j+5] + 64*w[8*j+6] + 128*w[8*j+7]

RECURSIVE StoreBits(_, _, _, _, _)
\* The bytes j..n-1 of the bits w stored at m + a + j .. m + a + n - 1.
StoreBits(m, a, w, j, n) ==
  IF j >= n THEN m
  ELSE StoreBits(Store(m, a + j, ByteOfBits(w, j)), a, w, j + 1, n)

\* ----------------------------------------------------------------- __m128i

mm_setzero_si128 == [k \in 0..127 |-> 0]
\* _mm_set1_epi64x(n), n a small constant: both 64-bit lanes hold n.
mm_set1_epi64x(n) == [k \in 0..127 |-> IF k % 64 < 30 THEN BitOf(n, k % 64) ELSE 0]
mm_loadu_si128(m, a) == [k \in 0..127 |-> BitOf(Load(m, a + (k \div 8)), k % 8)]
mm_storeu_si128(m, a, v) == StoreBits(m, a, v, 0, 16)
mm_or_si128(v, w) == [k \in 0..127 |-> IF v[k] = 1 \/ w[k] = 1 THEN 1 ELSE 0]
mm_and_si128(v, w) == [k \in 0..127 |-> v[k] * w[k]]
\* Both 64-bit lanes shifted, zeros shifted in.
mm_srli_epi64(v, s) == [k \in 0..127 |-> IF (k % 64) + s <= 63 THEN v[k + s] ELSE 0]
mm_slli_epi64(v, s) == [k \in 0..127 |-> IF (k % 64) >= s THEN v[k - s] ELSE 0]
\* The most significant bit of each of the 16 bytes.
RECURSIVE MovemaskFrom(_, _)
MovemaskFrom(v, j) == IF j > 15 THEN 0 ELSE v[8*j + 7] * Pow2(j) + MovemaskFrom(v, j + 1)
mm_movemask_epi8(v) == MovemaskFrom(v, 0)

\* ---------------------------------------------------- validate_ascii_fast

RECURSIVE ValidateLanes(_, _, _, _)
\* for (; i <= len - 16; i += 16) has_error |= load(src + i); gives <<i, has_error>>.
ValidateLanes(src, len, i, has_error) ==
  IF i <= len - 16
  THEN ValidateLanes(src, len, i + 16, mm_or_si128(has_error, mm_loadu_si128(src, i)))
  ELSE <<i, has_error>>

RECURSIVE ValidateTail(_, _, _, _)
\* for (; i < len; i++) tail_has_error |= src[i];
ValidateTail(src, len, i, tail_has_error) ==
  IF i < len
  THEN ValidateTail(src, len, i + 1, BitOr(tail_has_error, Load(src, i)))
  ELSE tail_has_error

\* validate_ascii_fast without its scalar tail.
validate_ascii_lanes_only(src, len) ==
  LET lanes == IF len >= 16 THEN ValidateLanes(src, len, 0, mm_setzero_si128)
               ELSE <<0, mm_setzero_si128>>
  IN mm_movemask_epi8(lanes[2]) = 0

validate_ascii_fast(src, len) ==
  LET lanes == IF len >= 16 THEN ValidateLanes(src, len, 0, mm_setzero_si128)
               ELSE <<0, mm_setzero_si128>>
      i == lanes[1]
      error_mask0 == mm_movemask_epi8(lanes[2])
      tail_has_error == ValidateTail(src, len, i, 0)
      error_mask == BitOr(error_mask0, BitAnd(tail_has_error, 128))
  IN error_mask = 0

\* -------------------------------------------------------------- ascii_pack

RECURSIVE PackShiftNoShift(_, _, _)
\* PackShift without val >>= 1: every mask reads the word as loaded.
PackShiftNoShift(val, dest, i) ==
  IF i > 7 THEN dest
  ELSE PackShiftNoShift(val, Or64(dest, And64(val, Shl64(Const64(127), 7 * i))), i + 1)

RECURSIVE PackShift(_, _, _)
\* for (i = 1; i <= 7; ++i) { val >>= 1; dest |= (val & (0x7FUL << 7 * i)); }
PackShift(val, dest, i) ==
  IF i > 7 THEN dest
  ELSE LET v == Shr64(val, 1)
       IN PackShift(v, Or64(dest, And64(v, Shl64(Const64(127), 7 * i))), i + 1)

\* The 56-bit blob made of one 8-byte word.
PackWord(val) == PackShift(val, And64(val, Const64(255)), 1)

RECURSIVE PackTail(_, _, _, _, _)
\* while (ascii < end) *bin++ = *ascii++;
PackTail(ascii, end, a, bin, b) ==
  IF a < end
  THEN PackTail(ascii, end, a + 1, Store(bin, b, Load(ascii, a)), b + 1)
  ELSE bin

RECURSIVE PackLoopCopy8(_, _, _, _, _)
\* PackLoop with memcpy(bin, &dest, 8): the whole word is stored.
PackLoopCopy8(ascii, end, a, bin, b) ==
  IF a + 8 <= end
  THEN PackLoopCopy8(ascii, end, a + 8,
                     StoreBits(bin, b, PackWord(Load64(ascii, a)), 0, 8), b + 7)
  ELSE PackTail(ascii, end, a, bin, b)

RECURSIVE PackLoop(_, _, _, _, _)
\* while (ascii + 8 <= end) { ...; memcpy(bin, &dest, 7); bin += 7; ascii += 8; }
PackLoop(ascii, end, a, bin, b) ==
  IF a + 8 <= end
  THEN PackLoop(ascii, end, a + 8,
                StoreBits(bin, b, PackWord(Load64(ascii, a)), 0, 7), b + 7)
  ELSE PackTail(ascii, end, a, bin, b)

\* ascii_pack(ascii + a, len, bin + b): the buffer bin after the call.
ascii_pack_at(ascii, a, len, bin, b) == PackLoop(ascii, a + len, a, bin, b)

ascii_pack(ascii, len, bin) == ascii_pack_at(ascii, 0, len, bin, 0)

\* --------------------------------------------------------- ascii_pack_simd

RECURSIVE MemcpyForward(_, _, _, _, _)
\* n bytes copied from m + s to m + d, lowest address first.
MemcpyForward(m, d, s, j, n) ==
  IF j >= n THEN m ELSE MemcpyForward(Store(m, d + j, Load(m, s + j)), d, s, j + 1, n)

RECURSIVE MemcpyBackward(_, _, _, _)
\* n bytes copied from m + s to m + d, highest address first.
MemcpyBackward(m, d, s, n) ==
  IF n <= 0 THEN m
  ELSE MemcpyBackward(Store(m, d + n - 1, Load(m, s + n - 1)), d, s, n - 1)

\* memcpy(m + d, m + s, n) of regions that may overlap: the standard leaves
\* the order of the copy open, and the order decides the result.
Memcpy(m, d, s, n, backward) ==
  IF backward THEN MemcpyBackward(m, d, s, n) ELSE MemcpyForward(m, d, s, 0, n)

RECURSIVE SimdShift(_, _, _, _)
\* for (i = 1; i <= 7; ++i) {
\*   _mm_srli_epi64(val, 1);
\*   __m128i shmask = _mm_slli_epi64(mask, 7 * i);
\*   _mm_or_si128(dest, _mm_and_si128(val, shmask)); }
\* The intrinsics return their result; the statements drop it, so that val
\* and dest are what they were before the loop.
SimdShift(val, dest, mask, i) ==
  IF i > 7 THEN dest
  ELSE LET shifted == mm_srli_epi64(val, 1)
           shmask == mm_slli_epi64(mask, 7 * i)
           merged == mm_or_si128(dest, mm_and_si128(val, shmask))
       IN SimdShift(val, dest, mask, i + 1)

\* The 128-bit value stored for the 16 bytes at ascii + a.
SimdWord(ascii, a) ==
  LET mask == mm_set1_epi64x(127)
      val == mm_loadu_si128(ascii, a)
  IN SimdShift(val, mm_and_si128(val, mask), mask, 1)

RECURSIVE SimdLoop(_, _, _, _, _, _)
\* while (ascii <= end) { ...; _mm_storeu_si128(bin, dest);
\*   memcpy(bin + 7, bin + 8, 7); bin += 14; ascii += 16; }  gives <<a, bin, b>>.
SimdLoop(ascii, end, a, bin, b, backward) ==
  IF a <= end
  THEN SimdLoop(ascii, end, a + 16,
                Memcpy(mm_storeu_si128(bin, b, SimdWord(ascii, a)), b + 7, b + 8, 7, backward),
                b + 14, backward)
  ELSE <<a, bin, b>>

\* ascii_pack_simd(ascii, len, bin): the buffer after the call, and whether
\* DCHECK(ascii < end) stopped a debug build before the scalar epilog.
ascii_pack_simd(ascii, len, bin, backward, debug) ==
  LET loop == SimdLoop(ascii, len - 32, 0, bin, 0, backward)
      a == loop[1]
      end == len
  IN IF debug /\ ~(a < end)
     THEN [written |-> loop[2], aborted |-> TRUE]
     ELSE [written |-> ascii_pack_at(ascii, a, end - a, loop[2], loop[3]), aborted |-> FALSE]

\* ------------------------------------------------------------ ascii_unpack

kM == 127

\* UnpackInit that clears the destination before the loops run.
UnpackInitZeroed(mem, bin, ascii_len, ascii) ==
  [mem |-> StoreBytes(mem, ascii, Buffer(ascii_len, 0), 1),
   bin |-> bin, ascii |-> ascii, ascii_len |-> ascii_len, p |-> 0, i |-> 0,
   loc |-> IF ascii_len >= 8 THEN "group" ELSE IF ascii_len > 0 THEN "tail" ELSE "done"]

\* The state of ascii_unpack(bin, ascii_len, ascii) on entry: mem is the
\* memory both pointers point into, bin and ascii are addresses in it.
UnpackInit(mem, bin, ascii_len, ascii) ==
  [mem |-> mem, bin |-> bin, ascii |-> ascii, ascii_len |-> ascii_len, p |-> 0, i |-> 0,
   loc |-> IF ascii_len >= 8 THEN "group" ELSE IF ascii_len > 0 THEN "tail" ELSE "done"]

\* UnpackLoc with the tail loop running while i <= ascii_len.
UnpackLocOneMore(ascii_len, i, inTail) ==
  IF ~inTail /\ ascii_len >= 8 THEN "group"
  ELSE IF i <= ascii_len THEN "tail" ELSE "done"

\* Where the loops stand once a group's last byte is written or a tail byte
\* is copied: while (ascii_len >= 8), then for (i = 0; i < ascii_len; ++i).
UnpackLoc(ascii_len, i, inTail) ==
  IF ~inTail /\ ascii_len >= 8 THEN "group"
  ELSE IF i < ascii_len THEN "tail" ELSE "done"

\* One store of ascii_unpack, with the load before it.
UnpackStep(s) ==
  IF s.loc = "group" /\ s.i < 7
  THEN LET src == Load(s.mem, s.bin)
           c == Byte(BitOr(s.p \div Pow2(8 - s.i), BitAnd(src * Pow2(s.i), kM)))
       IN [s EXCEPT !.mem = Store(s.mem, s.ascii, c), !.ascii = s.ascii + 1,
                    !.p = src, !.bin = s.bin + 1, !.i = s.i + 1]
  ELSE IF s.loc = "group"
  THEN [s EXCEPT !.mem = Store(s.mem, s.ascii, s.p \div 2), !.ascii = s.ascii + 1,
                 !.ascii_len = s.ascii_len - 8, !.i = 0,
                 !.loc = UnpackLoc(s.ascii_len - 8, 0, FALSE)]
  ELSE IF s.loc = "tail"
  THEN [s EXCEPT !.mem = Store(s.mem, s.ascii, Load(s.mem, s.bin)),
                 !.ascii = s.ascii + 1, !.bin = s.bin + 1, !.i = s.i + 1,
                 !.loc = UnpackLoc(s.ascii_len, s.i + 1, TRUE)]
  ELSE s

RECURSIVE UnpackRun(_)
UnpackRun(s) == IF s.loc = "done" THEN s ELSE UnpackRun(UnpackStep(s))

\* ascii_unpack(mem + bin, ascii_len, mem + ascii): the memory after the call.
ascii_unpack(mem, bin, ascii_len, ascii) == UnpackRun(UnpackInit(mem, bin, ascii_len, ascii)).mem

\* ---------------------------------------------------------- compare_packed

\* uint8_t conv = (ascii[0] >> i) | (ascii[1] << (7 - i)), the chars promoted
\* to int and the result cut to 8 bits.
Conv(c0, c1, i, isSigned) ==
  BitOr(Byte(CharToInt(c0, isSigned) \div Pow2(i)),
        Byte(CharToInt(c1, isSigned) * Pow2(7 - i)))

RECURSIVE CompareGroup(_, _, _, _, _, _, _)
\* for (i = 0; i < 7; ++i) { res &= (conv == *packed); ++ascii; ++packed; }
CompareGroup(packed, pk, ascii, a, i, res, isSigned) ==
  IF i >= 7 THEN res
  ELSE CompareGroup(packed, pk + 1, ascii, a + 1, i + 1,
                    res /\ (Conv(Load(ascii, a), Load(ascii, a + 1), i, isSigned)
                            = Load(packed, pk)),
                    isSigned)

RECURSIVE CompareTail(_, _, _, _, _, _)
\* while (ascii < end) if (*ascii++ != *packed++) return false;  return true;
CompareTail(packed, pk, ascii, a, end, isSigned) ==
  IF a >= end THEN TRUE
  ELSE IF CharToInt(Load(ascii, a), isSigned) # Load(packed, pk) THEN FALSE
  ELSE CompareTail(packed, pk + 1, ascii, a + 1, end, isSigned)

RECURSIVE CompareLoopNoReturn(_, _, _, _, _, _)
\* CompareLoop without "if (!res) return false": a group's answer is dropped.
CompareLoopNoReturn(packed, pk, ascii, a, end, isSigned) ==
  IF a + 8 <= end
  THEN CompareLoopNoReturn(packed, pk + 7, ascii, a + 8, end, isSigned)
  ELSE CompareTail(packed, pk, ascii, a, end, isSigned)

RECURSIVE CompareLoop(_, _, _, _, _, _)
\* while (ascii + 8 <= end) { ...; if (!res) return false; ++ascii; }
CompareLoop(packed, pk, ascii, a, end, isSigned) ==
  IF a + 8 <= end
  THEN IF ~CompareGroup(packed, pk, ascii, a, 0, TRUE, isSigned) THEN FALSE
       ELSE CompareLoop(packed, pk + 7, ascii, a + 8, end, isSigned)
  ELSE CompareTail(packed, pk, ascii, a, end, isSigned)

\* isSigned: whether char is a signed type in the build (it is on x86-64 and
\* is not on aarch64 Linux, the two targets of the file).
compare_packed(packed, ascii, ascii_len, isSigned) ==
  CompareLoop(packed, 0, ascii, 0, ascii_len, isSigned)

\* --------------------------------------------------------------- StringMap

\* The heap is the sequence of the buffers allocated so far; a pointer is a
\* buffer's index.  A buffer is [len, bytes, frees]: the sds length, the bytes
\* after the header, and the number of times it was freed (live when 0).

\* The unsigned value v (below 2^16 here) as 8 little-endian bytes.
LittleEndian64(v) == <<v % 256, (v \div 256) % 256, 0, 0, 0, 0, 0, 0>>

\* absl::little_endian::Load64(from), from = offset off of the bytes d.
LoadPtr(d, off) == Load(d, off) + 256 * Load(d, off + 1)

\* sds AllocSdsWithSpace(strlen, space): a buffer of sds length strlen with
\* space more bytes after its terminator; <<heap, pointer>>.
AllocSdsWithSpace(h, strlen, space) ==
  <<Append(h, [len |-> strlen, bytes |-> Buffer(strlen + 1 + space, 0), frees |-> 0]),
    Len(h) + 1>>

\* sds sdsnewlen(init, initlen); <<heap, pointer>>.
sdsnewlen(h, init, initlen) ==
  <<Append(h, [len |-> initlen, bytes |-> SubSeq(init, 1, initlen) \o <<0>>, frees |-> 0]),
    Len(h) + 1>>

sdslen(h, s) == h[s].len

sdsfree(h, s) == [h EXCEPT ![s].frees = h[s].frees + 1]

\* CompactObj::HashCode(string_view): a fixed function of the bytes.
RECURSIVE HashCode(_)
HashCode(bytes) ==
  IF bytes = <<>> THEN 7 ELSE (31 * HashCode(Tail(bytes)) + Head(bytes)) % 1024

\* sds GetValue(sds key)
GetValue(h, key) == LoadPtr(h[key].bytes, sdslen(h, key) + 1)

\* The first statements of AddOrSet: the key buffer, the value buffer and the
\* value's address in the key; <<heap, newkey, val>>.
NewEntry(h, field, value) ==
  LET k == AllocSdsWithSpace(h, Len(field), 8)
      newkey == k[2]
      h1 == [k[1] EXCEPT ![newkey].bytes = StoreBytes(@, 0, field, 1)]
      v == sdsnewlen(h1, value, Len(value))
      val == v[2]
      h2 == [v[1] EXCEPT ![newkey].bytes = StoreBytes(@, Len(field) + 1, LittleEndian64(val), 1)]
  IN <<h2, newkey, val>>

\* The field bytes of the sds s.
SdsBytes(h, s) == SubSeq(h[s].bytes, 1, sdslen(h, s))

\* What a call gives when its CHECK_EQ fails: the process aborts there.
CheckFailed == [ok |-> FALSE]

\* uint64_t StringMap::Hash(const void* obj, uint32_t cookie)
Hash(h, obj, cookie) ==
  IF cookie # 0 THEN CheckFailed ELSE [ok |-> TRUE, v |-> HashCode(SdsBytes(h, obj))]

\* bool StringMap::ObjEqual(const void* left, const void* right, uint32_t right_cookie)
ObjEqual(h, left, right, right_cookie) ==
  IF right_cookie # 0 THEN CheckFailed
  ELSE IF sdslen(h, left) # sdslen(h, right) THEN [ok |-> TRUE, v |-> FALSE]
  ELSE [ok |-> TRUE, v |-> SdsBytes(h, left) = SdsBytes(h, right)]

\* ObjDelete that frees the key buffer alone.
ObjDeleteKeyOnly(h, obj, has_ttl) == sdsfree(h, obj)

\* ObjDelete that frees the value buffer alone.
ObjDeleteValueOnly(h, obj, has_ttl) == sdsfree(h, GetValue(h, obj))

\* void StringMap::ObjDelete(void* obj, bool has_ttl): the heap after it.
ObjDelete(h, obj, has_ttl) ==
  LET s1 == obj
      value == GetValue(h, s1)
  IN sdsfree(sdsfree(h, value), s1)

\* DenseSet::AddInternal(obj, has_ttl): the set after it and whether obj went
\* in; it does not when an equal object is there.
AddInternal(h, set, obj, has_ttl) ==
  IF \E e \in set : Hash(h, e, 0) = Hash(h, obj, 0) /\ ObjEqual(h, e, obj, 0).v
  THEN <<set, FALSE>>
  ELSE <<set \cup {obj}, TRUE>>

\* DenseSet::ContainsInternal(obj, cookie): the object is hashed and compared
\* with the cookie it came with.  emptyFirst: whether an empty set answers
\* before it hashes.
ContainsInternal(h, set, obj, cookie, emptyFirst) ==
  IF emptyFirst /\ set = {} THEN [ok |-> TRUE, v |-> FALSE]
  ELSE IF ~Hash(h, obj, cookie).ok THEN CheckFailed
  ELSE IF \E e \in set : ~ObjEqual(h, e, obj, cookie).ok THEN CheckFailed
  ELSE [ok |-> TRUE, v |-> \E e \in set : ObjEqual(h, e, obj, cookie).v]

RECURSIVE ClearInternal(_, _)
\* DenseSet::ClearInternal(): ObjDelete of every object; the heap after it.
ClearInternal(h, set) ==
  IF set = {} THEN h
  ELSE LET e == CHOOSE x \in set : TRUE
       IN ClearInternal(ObjDelete(h, e, FALSE), set \ {e})

\* ------------------------------------------------------------ state tuples

codecVars == <<data, fill, pc, buf, simd, ascii2, cmp, vres, st>>
mapVars == <<heap, entries, mpc, fatal, ret>>
vars == <<data, fill, pc, buf, simd, ascii2, cmp, vres, st, heap, entries, mpc, fatal, ret>>

\* ------------------------------------------------------------------ inputs

Seeds == {0, 97, 127}
Strides == {0, 37}
Fills == {120, 255}
\* What the pack destination holds beforehand: a byte other than fill, so
\* that a byte copied from one buffer to the other shows.
BufFill == IF fill = 120 THEN 255 ELSE 120

\* The 7-bit string of len bytes that starts at a and steps by b.
RECURSIVE Gen(_, _, _)
Gen(len, a, b) ==
  IF len = 0 THEN <<>> ELSE Append(Gen(len - 1, a, b), (a + b * (len - 1)) % 128)

Inputs == {Gen(len, a, b) : len \in 0..MaxLen, a \in Seeds, b \in Strides}

Cap == MaxLen + Slack

\* 7 bytes for each 8, and the rest as they are.
PackedLen(n) == 7 * (n \div 8) + (n % 8)

\* The byte c with bit b flipped.
FlipBit(c, b) == IF BitOf(c, b) = 1 THEN c - Pow2(b) ELSE c + Pow2(b)

None == [none |-> TRUE]

Fields == {<<>>, <<97>>, <<98>>}
Values == {<<>>, <<118>>}
NoExpiry == "UINT32_MAX"
Ttls == {NoExpiry, "60"}
\* The buffers a run may allocate.
MaxAllocs == 6

CodecIdle ==
  /\ pc = "input" /\ buf = <<>> /\ simd = None /\ ascii2 = <<>>
  /\ cmp = None /\ vres = None /\ st = None

MapIdle ==
  /\ heap = <<>> /\ entries = {} /\ mpc = "running" /\ fatal = "" /\ ret = None

Init ==
  /\ data \in Inputs
  /\ fill \in Fills
  /\ CodecIdle
  /\ MapIdle

\* ----------------------------------------------------------- codec actions

\* detail::ascii_pack(data, len, buf)
Pack ==
  /\ pc = "input"
  /\ buf' = ascii_pack(data, Len(data), Buffer(Cap, BufFill))
  /\ pc' = "packed"
  /\ UNCHANGED <<data, fill, simd, ascii2, cmp, vres, st>>
  /\ UNCHANGED mapVars

\* detail::ascii_pack_simd(data, len, buf)
PackSimd ==
  /\ pc = "input"
  /\ \E backward \in BOOLEAN, debug \in BOOLEAN :
       simd' = ascii_pack_simd(data, Len(data), Buffer(Cap, BufFill), backward, debug)
  /\ pc' = "simd"
  /\ UNCHANGED <<data, fill, buf, ascii2, cmp, vres, st>>
  /\ UNCHANGED mapVars

\* detail::ascii_unpack(buf, len, ascii2), ascii2 apart from buf.
Unpack ==
  /\ pc = "packed"
  /\ ascii2' = SubSeq(ascii_unpack(buf \o Buffer(Cap, fill), 0, Len(data), Cap), Cap + 1, 2 * Cap)
  /\ pc' = "unpacked"
  /\ UNCHANGED <<data, fill, buf, simd, cmp, vres, st>>
  /\ UNCHANGED mapVars

\* compare_packed(buf, cand, len): cand is data (k = -1) or data with bit b of
\* its byte k flipped.
Compare ==
  /\ pc = "packed"
  /\ \E k \in -1..(Len(data) - 1), b \in 0..7, isSigned \in BOOLEAN :
       /\ k = -1 => b = 0
       /\ LET cand == IF k = -1 THEN data ELSE Store(data, k, FlipBit(Load(data, k), b))
          IN cmp' = [k |-> k, cand |-> cand, isSigned |-> isSigned,
                     res |-> compare_packed(buf, cand, Len(data), isSigned)]
  /\ pc' = "compared"
  /\ UNCHANGED <<data, fill, buf, simd, ascii2, vres, st>>
  /\ UNCHANGED mapVars

\* validate_ascii_fast(given, len): given is data (k = -1) or data with the
\* high bit of its byte k set.
Validate ==
  /\ pc = "input"
  /\ \E k \in -1..(Len(data) - 1) :
       LET given == IF k = -1 THEN data ELSE Store(data, k, Load(data, k) + 128)
       IN vres' = [k |-> k, given |-> given, res |-> validate_ascii_fast(given, Len(data))]
  /\ pc' = "validated"
  /\ UNCHANGED <<data, fill, buf, simd, ascii2, cmp, st>>
  /\ UNCHANGED mapVars

\* The caller of an unpack in place: a buffer of len bytes with the packed
\* bytes at its right end, and ascii_unpack entered with ascii at its start.
InplaceStart ==
  /\ pc = "packed"
  /\ LET n == Len(data)
         left == n - PackedLen(n)
     IN st' = UnpackInit(Buffer(left, fill) \o SubSeq(buf, 1, PackedLen(n)), left, n, 0)
  /\ pc' = "inplace"
  /\ UNCHANGED <<data, fill, buf, simd, ascii2, cmp, vres>>
  /\ UNCHANGED mapVars

\* The next store of the ascii_unpack that runs in place.
InplaceStep ==
  /\ pc = "inplace"
  /\ st.loc # "done"
  /\ st' = UnpackStep(st)
  /\ UNCHANGED <<data, fill, pc, buf, simd, ascii2, cmp, vres>>
  /\ UNCHANGED mapVars

Next == Pack \/ PackSimd \/ Unpack \/ Compare \/ Validate \/ InplaceStart \/ InplaceStep

Spec == Init /\ [][Next]_vars

\* ------------------------------------------------------- StringMap actions

\* bool StringMap::AddOrSet(string_view field, string_view value, uint32_t ttl_sec)
AddOrSet ==
  /\ mpc = "running"
  /\ Len(heap) + 2 <= MaxAllocs
  /\ \E field \in Fields, value \in Values, ttl_sec \in Ttls :
       IF ttl_sec # NoExpiry
       THEN /\ mpc' = "aborted"
            /\ fatal' = "CHECK_EQ(ttl_sec, UINT32_MAX)"
            /\ ret' = [op |-> "AddOrSet", field |-> field]
            /\ UNCHANGED <<heap, entries>>
       ELSE LET e == NewEntry(heap, field, value)
                newkey == e[2]
                has_ttl == FALSE
                added == AddInternal(e[1], entries, newkey, has_ttl)
            IN IF ~added[2]
               THEN /\ heap' = ObjDelete(e[1], newkey, has_ttl)
                    /\ mpc' = "aborted"
                    /\ fatal' = "TBD:ORSET"
                    /\ ret' = [op |-> "AddOrSet", field |-> field, newkey |-> newkey, val |-> e[3]]
                    /\ UNCHANGED entries
               ELSE /\ heap' = e[1]
                    /\ entries' = added[1]
                    /\ ret' = [op |-> "AddOrSet", field |-> field, newkey |-> newkey,
                               val |-> e[3], res |-> TRUE]
                    /\ UNCHANGED <<mpc, fatal>>
  /\ UNCHANGED codecVars

\* bool StringMap::Erase(string_view field)
Erase ==
  /\ mpc = "running"
  /\ \E field \in Fields : ret' = [op |-> "Erase", field |-> field, res |-> FALSE]
  /\ UNCHANGED <<heap, entries, mpc, fatal>>
  /\ UNCHANGED codecVars

\* What Contains hands to ContainsInternal: the address of its string_view
\* argument, which is no sds.
ViewPtr == 0

\* bool StringMap::Contains(string_view field) const
Contains ==
  /\ mpc = "running"
  /\ \E field \in Fields, emptyFirst \in BOOLEAN :
       LET found == ContainsInternal(heap, entries, ViewPtr, 1, emptyFirst)
       IN IF ~found.ok
          THEN /\ mpc' = "aborted"
               /\ fatal' = "CHECK_EQ(cookie, 0u)"
               /\ ret' = [op |-> "Contains", field |-> field]
          ELSE /\ ret' = [op |-> "Contains", field |-> field, res |-> found.v]
               /\ UNCHANGED <<mpc, fatal>>
  /\ UNCHANGED <<heap, entries>>
  /\ UNCHANGED codecVars

\* void StringMap::Clear()
Clear ==
  /\ mpc = "running"
  /\ heap' = ClearInternal(heap, entries)
  /\ entries' = {}
  /\ ret' = [op |-> "Clear"]
  /\ UNCHANGED <<mpc, fatal>>
  /\ UNCHANGED codecVars

\* StringMap::~StringMap()
Destroy ==
  /\ mpc = "running"
  /\ heap' = ClearInternal(heap, entries)
  /\ entries' = {}
  /\ mpc' = "destroyed"
  /\ ret' = [op |-> "~StringMap"]
  /\ UNCHANGED fatal
  /\ UNCHANGED codecVars

MapInit ==
  /\ data = <<>>
  /\ fill = 120
  /\ CodecIdle
  /\ MapIdle

MapNext == AddOrSet \/ Erase \/ Contains \/ Clear \/ Destroy

MapSpec == MapInit /\ [][MapNext]_vars

\* ------------------------------------------------------------------ claims

\* C1: packing an all-ASCII string of n bytes and unpacking the result with
\* the same n into a buffer apart from it gives the string back, for every n.
RoundTrip ==
  pc = "unpacked" => SubSeq(ascii2, 1, Len(data)) = data

\* C1's case: two packed groups and a remainder, of bytes that differ.
RoundTripWitness ==
  /\ pc = "unpacked"
  /\ Len(data) > 16 /\ Len(data) % 8 # 0
  /\ data[1] # data[2]
  /\ SubSeq(ascii2, 1, Len(data)) = data

\* C2: the bytes ascii_pack_simd writes to buf are the bytes ascii_pack
\* writes for the same input, whether the vector loop runs or not.
SimdEqualsScalar ==
  pc = "simd" =>
    SubSeq(simd.written, 1, PackedLen(Len(data)))
      = SubSeq(ascii_pack(data, Len(data), Buffer(Cap, BufFill)), 1, PackedLen(Len(data)))

\* C3 as amended: compare_packed answers true for the string that was packed
\* and false for the string with one byte changed to another 7-bit value.
ComparePackedAscii ==
  pc = "compared" =>
    /\ cmp.k = -1 => cmp.res
    /\ (cmp.k # -1 /\ Load(cmp.cand, cmp.k) < 128) => ~cmp.res

\* C3's case: a changed 7-bit byte inside a packed group, found.
ComparePackedWitness ==
  /\ pc = "compared"
  /\ cmp.k # -1 /\ cmp.k < 8 * (Len(data) \div 8)
  /\ Load(cmp.cand, cmp.k) < 128
  /\ ~cmp.res

\* C3 as stated: false for the string with one byte changed to any other
\* byte value.
ComparePackedAnyByte ==
  pc = "compared" =>
    /\ cmp.k = -1 => cmp.res
    /\ cmp.k # -1 => ~cmp.res

\* C4: validate_ascii_fast answers true for a buffer of 7-bit bytes and false
\* once one byte, at any index and for any length, has its high bit set.
ValidatorCorrect ==
  pc = "validated" => (vres.res <=> vres.k = -1)

\* C4's case: lanes and a tail, the offending byte in the tail.
ValidatorWitness ==
  /\ pc = "validated"
  /\ Len(data) > 16 /\ Len(data) % 16 # 0
  /\ vres.k >= 16 * (Len(data) \div 16)
  /\ ~vres.res

\* Whether every buffer of the heap was freed exactly once.
AllFreedOnce == \A i \in 1..Len(heap) : heap[i].frees = 1

\* C5: once Clear() or the destructor has returned, every key buffer and
\* every value buffer the map allocated was freed exactly once; and no
\* buffer is ever freed twice.
ClearFreesAll ==
  /\ (ret # None /\ ret.op \in {"Clear", "~StringMap"}) => AllFreedOnce
  /\ \A i \in 1..Len(heap) : heap[i].frees <= 1

\* C5's case: two distinct fields added, then Clear().
ClearWitness ==
  /\ ret # None /\ ret.op = "Clear"
  /\ Len(heap) = 4
  /\ SdsBytes(heap, 1) # SdsBytes(heap, 3)
  /\ AllFreedOnce

\* Whether the field of the last call is in the map.
FieldPresent == \E e \in entries : SdsBytes(heap, e) = ret.field

\* C6: Contains(field) returns true for a field that is in the map, the
\* process running on, and does not return true for one that is not.
ContainsMembership ==
  (ret # None /\ ret.op = "Contains") =>
    /\ FieldPresent => (mpc = "running" /\ ret.res)
    /\ (~FieldPresent /\ mpc = "running") => ~ret.res

\* C7: the step on which AddOrSet meets a field that is present frees the
\* new key buffer and the new value buffer once each, and leaves the set and
\* every buffer allocated before, those of the stored entry among them, as
\* they were, unfreed.
DuplicateAddReleases ==
  [][(fatal = "" /\ fatal' = "TBD:ORSET") =>
       /\ heap'[ret'.newkey].frees = 1
       /\ heap'[ret'.val].frees = 1
       /\ entries' = entries
       /\ \A i \in 1..Len(heap) : heap'[i] = heap[i]
       /\ \A e \in entries : heap'[e].frees = 0 /\ heap'[GetValue(heap', e)].frees = 0]_vars

\* C7's case: a field added twice.
DuplicateAddWitness ==
  /\ fatal = "TBD:ORSET"
  /\ \E e \in entries : SdsBytes(heap, e) = ret.field /\ heap[e].frees = 0
  /\ heap[ret.newkey].frees = 1 /\ heap[ret.val].frees = 1

\* Bit t of the 56-bit group g of s: bit t % 7 of the group's byte t \div 7.
LayoutBit(s, g, t) == BitOf(s[8 * g + (t \div 7) + 1], t % 7)

\* Byte j of that group in little-endian order.
LayoutByte(s, g, j) ==
  LayoutBit(s, g, 8*j) + 2 * LayoutBit(s, g, 8*j + 1) + 4 * LayoutBit(s, g, 8*j + 2)
  + 8 * LayoutBit(s, g, 8*j + 3) + 16 * LayoutBit(s, g, 8*j + 4)
  + 32 * LayoutBit(s, g, 8*j + 5) + 64 * LayoutBit(s, g, 8*j + 6)
  + 128 * LayoutBit(s, g, 8*j + 7)

\* C8: ascii_pack writes 7 * (n \div 8) + n % 8 bytes and no more: each group
\* of 8 bytes as the 7 little-endian bytes of the low 7 bits of its bytes,
\* then the last n % 8 bytes as they are.
PackedLayout ==
  pc = "packed" =>
    LET n == Len(data)
        groups == n \div 8
    IN /\ \A g \in 0..(groups - 1), j \in 0..6 : Load(buf, 7 * g + j) = LayoutByte(data, g, j)
       /\ \A r \in 0..((n % 8) - 1) : Load(buf, 7 * groups + r) = Load(data, 8 * groups + r)
       /\ \A a \in PackedLen(n)..(Cap - 1) : Load(buf, a) = BufFill

\* C8's case: groups and a remainder, of bytes that differ.
PackedLayoutWitness ==
  /\ pc = "packed"
  /\ Len(data) > 16 /\ Len(data) % 8 # 0
  /\ data[1] # data[2]
  /\ Load(buf, 0) = LayoutByte(data, 0, 0)
  /\ Load(buf, PackedLen(Len(data))) = BufFill

\* C9: with the packed bytes at the right end of a buffer of n bytes and the
\* destination at its start, the address ascii_unpack stores to next never
\* passes the address it loads from next, so that nothing unread is
\* overwritten, and the buffer holds the string when the call returns.
InplaceUnpack ==
  pc = "inplace" =>
    /\ st.ascii <= st.bin
    /\ st.loc = "done" => st.mem = data

\* C9's case: groups and a remainder unpacked in place.
InplaceWitness ==
  /\ pc = "inplace"
  /\ st.loc = "done"
  /\ Len(data) > 16 /\ Len(data) % 8 # 0
  /\ data[1] # data[2]
  /\ st.mem = data

\* C10: ascii_unpack stores to the first ascii_len bytes of the destination
\* and to none after them.
UnpackFrame ==
  pc = "unpacked" =>
    /\ \A a \in Len(data)..(Cap - 1) : Load(ascii2, a) = fill
    /\ \A a \in 0..(Len(data) - 1) : Load(ascii2, a) < 128

\* C10's case: 7 bytes unpacked into a buffer of 'x'.
UnpackFrameWitness ==
  /\ pc = "unpacked"
  /\ Len(data) = 7 /\ fill = 120
  /\ Load(ascii2, 7) = 120
  /\ Load(ascii2, 6) = Load(data, 6)

====
